---- MODULE Spec2Model ----
(***************************************************************************)
(* The AutoGen planner/executor example: config.py (get_llm_config),       *)
(* tools.py (save_plan_to_file) and agent.py (the agents, the group chat   *)
(* and main).  Text is a sequence of one-character strings, so that the    *)
(* numbered rendering of a plan and its lines are computed, not assumed.   *)
(***************************************************************************)
EXTENDS Integers, Sequences, FiniteSets, TLC

VARIABLES pc, env, llm_config, goal, messages, round, terminated,
          logs_dir, files, saved, tool_log

vars == <<pc, env, llm_config, goal, messages, round, terminated,
          logs_dir, files, saved, tool_log>>

chatVars == <<goal, messages, round, terminated, tool_log>>
fsVars == <<logs_dir, files, saved>>

----------------------------------------------------------------------------
(* Bounds of the model *)

\* step lists of every length up to MaxSteps are enumerated
MaxSteps == 2
\* length of the one long step list (two-digit line numbers)
LongLen == 11

----------------------------------------------------------------------------
(* config.py *)

Unset == "<unset>"

DefaultBaseUrl == "http://localhost:11434/v1"

\* values of OLLAMA_BASE_URL in the process environment
EnvValues == {Unset, "", "http://example:9999/v1", "http://localhost:11434/v1"}

\* a bug: `os.getenv(name) or default`, an empty value falls back too
getenv_or_default(value, default) ==
    IF value = Unset \/ value = "" THEN default ELSE value

\* os.getenv(name, default): the default only when the variable is unset
getenv(value, default) ==
    IF value = Unset THEN default ELSE value

get_llm_config(e) ==
    [config_list |->
        << [model    |-> "mistral:latest",
            api_key  |-> "NA",
            base_url |-> getenv(e, DefaultBaseUrl)] >>]

NoConfig == [config_list |-> << >>]

----------------------------------------------------------------------------
(* tools.py *)

DefaultFilename == "autogen_plan.txt"

Filenames == {DefaultFilename, "other.txt"}

DigitChar(d) ==
    CASE d = 0 -> "0" [] d = 1 -> "1" [] d = 2 -> "2" [] d = 3 -> "3"
      [] d = 4 -> "4" [] d = 5 -> "5" [] d = 6 -> "6" [] d = 7 -> "7"
      [] d = 8 -> "8" [] d = 9 -> "9"

\* str(n) of a natural number: its decimal digits
RECURSIVE IntToStr(_)
IntToStr(n) ==
    IF n < 10 THEN << DigitChar(n) >>
    ELSE IntToStr(n \div 10) \o << DigitChar(n % 10) >>

\* a bug: the 0-based index of enumerate() is written
FormatLineZeroBased(i, step) ==
    IntToStr(i) \o << ".", " " >> \o step \o << "\n" >>

\* f"{i+1}. {step}\n", i the 0-based index of enumerate()
FormatLine(i, step) ==
    IntToStr(i + 1) \o << ".", " " >> \o step \o << "\n" >>

\* "".join(lines) of the formatted lines, in order
RECURSIVE JoinLines(_, _)
JoinLines(steps, i) ==
    IF i >= Len(steps) THEN << >>
    ELSE FormatLine(i, steps[i + 1]) \o JoinLines(steps, i + 1)

Render(steps) == JoinLines(steps, 0)

NoFile == [exists |-> FALSE, text |-> << >>]

\* a bug: the file is opened in append mode
write_text_append(old, data) ==
    [exists |-> TRUE, text |-> old.text \o data]

\* Path.write_text: the data becomes the whole content of the file
write_text(old, data) ==
    [exists |-> TRUE, text |-> data]

\* what the filesystem lets a call do
Outcomes == {"ok", "mkdir_error", "open_error", "write_error"}

\* save_plan_to_file(steps, filename) under a filesystem outcome: the new
\* state of the logs directory and of the file, and the value returned or
\* the error raised.  mkdir(parents=True, exist_ok=True) comes first; an
\* error opening the file leaves it as it was; an error while writing leaves
\* the file truncated by the open.
save_plan_to_file(steps, filename, outcome, dir, old) ==
    CASE outcome = "mkdir_error" ->
           [dir |-> dir, file |-> old, raised |-> TRUE, path |-> ""]
      [] outcome = "open_error" ->
           [dir |-> TRUE, file |-> old, raised |-> TRUE, path |-> ""]
      [] outcome = "write_error" ->
           [dir |-> TRUE, file |-> write_text(old, << >>),
            raised |-> TRUE, path |-> ""]
      [] OTHER ->
           [dir |-> TRUE, file |-> write_text(old, Render(steps)),
            raised |-> FALSE, path |-> "logs/" \o filename]

----------------------------------------------------------------------------
(* Inputs *)

\* a plain step and a step with a line break in it
StepStrings == { << "a" >>, << "a", "\n", "b" >> }

RECURSIVE SeqsUpTo(_, _)
SeqsUpTo(S, n) ==
    IF n = 0 THEN { << >> }
    ELSE LET shorter == SeqsUpTo(S, n - 1)
         IN  shorter \cup { Append(s, x) : s \in shorter, x \in S }

ExampleSteps ==
    << << "C", "o", "l", "l", "e", "c", "t", " ", "d", "a", "t", "a" >>,
       << "T", "r", "a", "i", "n", " ", "m", "o", "d", "e", "l" >> >>

LongSteps == [i \in 1..LongLen |-> << "a" >>]

\* a list of one empty step
EmptyStep == << << >> >>

StepLists ==
    SeqsUpTo(StepStrings, MaxSteps) \cup {ExampleSteps, LongSteps, EmptyStep}

\* content of a file that is there before the program runs
OldText == << "o", "l", "d" >>

\* what is known of a file's last save: whether it succeeded, its steps, and
\* how many saves of the file succeeded so far (0, 1, or 2 for more)
NotSaved == [done |-> FALSE, steps |-> << >>, calls |-> 0]

Saved(before, steps, raised) ==
    [done  |-> ~raised,
     steps |-> IF raised THEN << >> ELSE steps,
     calls |-> IF raised THEN before.calls
               ELSE IF before.calls = 0 THEN 1 ELSE 2]

\* the filesystem before the program runs: no logs directory, or a logs
\* directory in which each file is absent or has earlier content
InitFs ==
    /\ logs_dir \in BOOLEAN
    /\ files \in [Filenames -> {NoFile, [exists |-> TRUE, text |-> OldText]}]
    /\ ~logs_dir => \A f \in Filenames : files[f] = NoFile
    /\ saved = [f \in Filenames |-> NotSaved]

InitChat ==
    /\ goal = ""
    /\ messages = << >>
    /\ round = 0
    /\ terminated = FALSE
    /\ tool_log = << >>

----------------------------------------------------------------------------
(* The components called directly, as their callers and tests call them *)

LeafInit ==
    /\ pc = "leaf"
    /\ env \in EnvValues
    /\ llm_config = NoConfig
    /\ InitFs
    /\ InitChat

CallGetLlmConfig ==
    /\ pc = "leaf"
    /\ llm_config' = get_llm_config(env)
    /\ UNCHANGED <<pc, env, chatVars, fsVars>>

CallSave(steps, filename, outcome) ==
    /\ pc = "leaf"
    /\ LET r == save_plan_to_file(steps, filename, outcome,
                                  logs_dir, files[filename])
       IN  /\ logs_dir' = r.dir
           /\ files' = [files EXCEPT ![filename] = r.file]
           /\ saved' = [saved EXCEPT ![filename] =
                           Saved(saved[filename], steps, r.raised)]
    /\ UNCHANGED <<pc, env, llm_config, chatVars>>

LeafNext ==
    \/ CallGetLlmConfig
    \/ \E s \in StepLists, f \in Filenames, o \in Outcomes : CallSave(s, f, o)

LeafSpec == LeafInit /\ [][LeafNext]_vars

----------------------------------------------------------------------------
(* agent.py: the agents and the group chat *)

\* GroupChat(agents=[user_proxy, planner, executor], messages=[], max_round=10)
agents == << "user", "planner", "executor" >>

\* a bug: one round too many
max_round_plus_one == 10 + 1

max_round == 10

\* the role save_plan_tool is registered with for execution
tool_executor == "user"

\* goals typed at the prompt
Goals == { "", "Deploy a model" }

\* what the filesystem lets a call of the tool do during the chat
ChatOutcomes == {"ok", "mkdir_error", "write_error"}

\* step lists the executor passes to save_plan_tool
ToolArgs == { ExampleSteps }

Text(name, content) ==
    [name |-> name, kind |-> "text", content |-> content, steps |-> << >>]

ToolCall(name, steps) ==
    [name |-> name, kind |-> "tool_call", content |-> "save_plan_tool",
     steps |-> steps]

ToolResult(name, content) ==
    [name |-> name, kind |-> "tool_result", content |-> content,
     steps |-> << >>]

\* a bug: the tool tries again when the save raises
save_plan_tool_retry(steps, outcome, dir, old) ==
    LET first == save_plan_to_file(steps, DefaultFilename, outcome, dir, old)
    IN  IF first.raised
        THEN [result |-> save_plan_to_file(steps, DefaultFilename, outcome,
                                           first.dir, first.file),
              attempts |-> 2]
        ELSE [result |-> first, attempts |-> 1]

\* save_plan_tool(steps): one call of save_plan_to_file with the default
\* filename, its value returned and its error raised to the caller
save_plan_tool(steps, outcome, dir, old) ==
    [result |-> save_plan_to_file(steps, DefaultFilename, outcome, dir, old),
     attempts |-> 1]

----------------------------------------------------------------------------
(* The group chat run by initiate_chat *)

LastMessage == messages[Len(messages)]

\* the round budget is spent
LastRound == round >= max_round

\* a turn can be taken: the chat is running, rounds are left
CanTurn ==
    /\ pc = "chat"
    /\ ~LastRound

\* a pending tool call is answered by the role that executes the tool;
\* otherwise the supervisor picks any of the agents
CanSpeak(a) ==
    /\ \E i \in 1..Len(agents) : agents[i] = a
    /\ LastMessage.kind = "tool_call" => a = tool_executor

\* a bug: the reply replaces the last message of the transcript
ReplaceLast(msgs, m) ==
    [msgs EXCEPT ![Len(msgs)] = m]

\* the transcript with a turn's message appended
AppendTurn(msgs, m) ==
    Append(msgs, m)

Speak(m) ==
    /\ CanTurn
    /\ CanSpeak(m.name)
    /\ messages' = AppendTurn(messages, m)
    /\ round' = round + 1
    /\ UNCHANGED <<pc, env, llm_config, goal, terminated>>

PlannerTurn ==
    /\ Speak(Text("planner", "plan"))
    /\ UNCHANGED <<fsVars, tool_log>>

ExecutorNotes ==
    /\ Speak(Text("executor", "notes"))
    /\ UNCHANGED <<fsVars, tool_log>>

ExecutorToolCall(steps) ==
    /\ Speak(ToolCall("executor", steps))
    /\ UNCHANGED <<fsVars, tool_log>>

\* the user proxy has no LLM and no tool call to answer: its default reply
UserAutoReply ==
    /\ pc = "chat"
    /\ LastMessage.kind # "tool_call"
    /\ Speak(Text("user", ""))
    /\ UNCHANGED <<fsVars, tool_log>>

\* the user proxy executes the pending call of save_plan_tool; the value
\* returned, or the error raised, is the content of its message
UserToolTurn(outcome) ==
    /\ pc = "chat"
    /\ LastMessage.kind = "tool_call"
    /\ LET t == save_plan_tool(LastMessage.steps, outcome,
                               logs_dir, files[DefaultFilename])
           r == t.result
       IN  /\ Speak(ToolResult("user", IF r.raised THEN "Error" ELSE r.path))
           /\ logs_dir' = r.dir
           /\ files' = [files EXCEPT ![DefaultFilename] = r.file]
           /\ saved' = [saved EXCEPT ![DefaultFilename] =
                           Saved(saved[DefaultFilename], LastMessage.steps,
                                 r.raised)]
           /\ tool_log' = tool_log \o
                  [k \in 1..t.attempts |->
                      [slot |-> Len(messages) + 1, raised |-> r.raised]]

\* a bug: a round budget spent without the supervisor's stop is a stalled
\* exchange, and its last turn is taken again
RetryStalledRound ==
    /\ pc = "chat"
    /\ LastRound
    /\ messages' = SubSeq(messages, 1, Len(messages) - 1)
    /\ round' = round - 1
    /\ UNCHANGED <<pc, env, llm_config, goal, terminated, fsVars, tool_log>>

\* the round budget is spent: the chat ends
EndOfRounds ==
    /\ pc = "chat"
    /\ LastRound
    /\ terminated' = TRUE
    /\ pc' = "print"
    /\ UNCHANGED <<env, llm_config, goal, messages, round, fsVars, tool_log>>

\* the supervisor ends the chat before the budget is spent; its policy is
\* an instruction to the model behind it, no condition on the transcript
StopEarly ==
    /\ pc = "chat"
    /\ ~LastRound
    /\ terminated' = TRUE
    /\ pc' = "print"
    /\ UNCHANGED <<env, llm_config, goal, messages, round, fsVars, tool_log>>

\* a call of the LLM backend fails: nothing catches the error
BackendError ==
    /\ pc = "chat"
    /\ ~LastRound
    /\ pc' = "crashed"
    /\ UNCHANGED <<env, llm_config, goal, messages, round, terminated,
                   fsVars, tool_log>>

----------------------------------------------------------------------------
(* agent.py: main *)

Init ==
    /\ pc = "start"
    /\ env \in {Unset, "http://example:9999/v1"}
    /\ llm_config = NoConfig
    /\ InitFs
    /\ ~logs_dir
    /\ InitChat

\* create_planner_executor_agents(): the configuration is read, the agents,
\* the group chat with no messages and the manager are built
CreateAgents ==
    /\ pc = "start"
    /\ llm_config' = get_llm_config(env)
    /\ pc' = "ready"
    /\ UNCHANGED <<env, chatVars, fsVars>>

\* user_goal = input("Goal: ")
ReadGoal(g) ==
    /\ pc = "ready"
    /\ goal' = g
    /\ pc' = "goal"
    /\ UNCHANGED <<env, llm_config, messages, round, terminated,
                   fsVars, tool_log>>

\* user_proxy.initiate_chat(manager, message=user_goal): the goal is the
\* first message of the transcript, sent by the user proxy
InitiateChat ==
    /\ pc = "goal"
    /\ messages' = messages \o << Text("user", goal) >>
    /\ round' = round + 1
    /\ pc' = "chat"
    /\ UNCHANGED <<env, llm_config, goal, terminated, fsVars, tool_log>>

\* a bug: main starts the chat again after it ended
PrintAndRestart ==
    /\ pc = "print"
    /\ pc' = "chat"
    /\ UNCHANGED <<env, llm_config, chatVars, fsVars>>

\* pprint(chat_result), and main returns
PrintResult ==
    /\ pc = "print"
    /\ pc' = "exit"
    /\ UNCHANGED <<env, llm_config, chatVars, fsVars>>

Next ==
    \/ CreateAgents
    \/ \E g \in Goals : ReadGoal(g)
    \/ InitiateChat
    \/ PlannerTurn
    \/ ExecutorNotes
    \/ \E s \in ToolArgs : ExecutorToolCall(s)
    \/ UserAutoReply
    \/ \E o \in ChatOutcomes : UserToolTurn(o)
    \/ EndOfRounds
    \/ StopEarly
    \/ BackendError
    \/ PrintResult

Spec == Init /\ [][Next]_vars


----------------------------------------------------------------------------
(* The program when every call of the LLM backend returns: main is one     *)
(* sequential thread, so a step that can be taken is taken.                *)

Returning ==
    \/ CreateAgents
    \/ \E g \in Goals : ReadGoal(g)
    \/ InitiateChat
    \/ PlannerTurn
    \/ ExecutorNotes
    \/ \E s \in ToolArgs : ExecutorToolCall(s)
    \/ UserAutoReply
    \/ \E o \in ChatOutcomes : UserToolTurn(o)
    \/ EndOfRounds
    \/ StopEarly
    \/ PrintResult

LiveInit == Init /\ env = Unset

LiveSpec == LiveInit /\ [][Returning]_vars /\ WF_vars(Returning)

----------------------------------------------------------------------------
(* Reading a transcript and a file *)

Senders(i) == { messages[j].name : j \in 1..i }

HasPlan == \E i \in 1..Len(messages) : messages[i].name = "planner"

HasNotes ==
    \E i \in 1..Len(messages) :
        messages[i].name = "executor" /\ messages[i].kind = "text"

HasToolInvocation ==
    \E i \in 1..Len(messages) : messages[i].kind = "tool_call"

\* the lines of a text: its pieces ended by a line break, and what follows
\* the last line break when that is not empty
RECURSIVE SplitFrom(_, _, _)
SplitFrom(text, i, line) ==
    IF i > Len(text) THEN (IF line = << >> THEN << >> ELSE << line >>)
    ELSE IF text[i] = "\n" THEN << line >> \o SplitFrom(text, i + 1, << >>)
    ELSE SplitFrom(text, i + 1, Append(line, text[i]))

SplitLines(text) == SplitFrom(text, 1, << >>)

HasLineBreak(step) == \E i \in 1..Len(step) : step[i] = "\n"

RECURSIVE LineBreaksIn(_)
LineBreaksIn(steps) ==
    IF steps = << >> THEN 0
    ELSE Cardinality({ i \in 1..Len(Head(steps)) : Head(steps)[i] = "\n" })
         + LineBreaksIn(Tail(steps))

\* the decimal numerals, written out
Numerals ==
    << << "1" >>, << "2" >>, << "3" >>, << "4" >>, << "5" >>, << "6" >>,
       << "7" >>, << "8" >>, << "9" >>, << "1", "0" >>, << "1", "1" >>,
       << "1", "2" >>, << "1", "3" >>, << "1", "4" >>, << "1", "5" >> >>

NumberedLine(i, step) == Numerals[i] \o << ".", " " >> \o step

ExampleText ==
    << "1", ".", " ", "C", "o", "l", "l", "e", "c", "t", " ",
       "d", "a", "t", "a", "\n",
       "2", ".", " ", "T", "r", "a", "i", "n", " ",
       "m", "o", "d", "e", "l", "\n" >>

\* the file of a successful last save has one line per step, line i being
\* "i. " and the i-th step
OneLinePerStep(f) ==
    LET steps == saved[f].steps
        lines == SplitLines(files[f].text)
    IN  /\ files[f].exists
        /\ Len(lines) = Len(steps)
        /\ \A i \in 1..Len(steps) : lines[i] = NumberedLine(i, steps[i])

----------------------------------------------------------------------------
(* The claims *)

\* C1: in every reachable state of a conversation the round counter, and
\* with it the number of messages of the transcript, is at most 10,
\* whatever the goal and whatever the roles answer.
C1_RoundCounterAtMostTen ==
    /\ round <= 10
    /\ Len(messages) <= 10

\* C1 witness: a conversation that used all ten rounds and ended.
C1_Witness == terminated /\ round = 10 /\ Len(messages) = 10

\* C2: in every completed conversation each executor message comes after
\* a planner message.  (As claimed; the supervisor may pick the executor
\* before the planner has spoken.)
C2_PlannerBeforeExecutor ==
    terminated =>
        \A i \in 1..Len(messages) :
            messages[i].name = "executor" => "planner" \in Senders(i - 1)

\* C3: once the conversation is terminated it stays terminated, and no step
\* changes the transcript or the round counter.
C3_NoTurnAfterTermination ==
    [][terminated =>
          /\ terminated'
          /\ messages' = messages
          /\ round' = round]_vars

\* C3 witness: main has printed the result of a conversation that the
\* supervisor ended before the round budget was spent.
C3_Witness == terminated /\ pc = "exit" /\ round < 10

\* C4 as claimed: after a successful save of N steps the file has exactly N
\* lines and line i is "i. " and the i-th step, for every sequence of
\* strings; the two example steps give the example text.
C4_OneLinePerStepAlways ==
    \A f \in Filenames :
        saved[f].done =>
            /\ OneLinePerStep(f)
            /\ saved[f].steps = ExampleSteps => files[f].text = ExampleText

\* C4 as amended: the same for every sequence of strings none of which
\* contains a line break; in general the file has N lines and one more for
\* each line break inside a step, and every step's first line is numbered.
C4_OneLinePerStepWithoutLineBreaks ==
    \A f \in Filenames :
        saved[f].done =>
            LET steps == saved[f].steps
                lines == SplitLines(files[f].text)
            IN  /\ (\A i \in 1..Len(steps) : ~HasLineBreak(steps[i]))
                       => OneLinePerStep(f)
                /\ Len(lines) = Len(steps) + LineBreaksIn(steps)
                /\ steps = ExampleSteps => files[f].text = ExampleText
                /\ steps = << >> => files[f].text = << >>

\* C4 witness: a saved plan long enough for two-digit line numbers.
C4_Witness ==
    /\ saved[DefaultFilename].done
    /\ saved[DefaultFilename].steps = LongSteps
    /\ Len(SplitLines(files[DefaultFilename].text)) >= 10

\* C5: after a successful save the file holds the numbered rendering of the
\* steps of that last call and nothing else, whatever it held before.
C5_LastSaveReplaces ==
    \A f \in Filenames :
        saved[f].done =>
            /\ files[f].exists
            /\ files[f].text = Render(saved[f].steps)

\* C5 witness: a second successful save with an empty step list left the
\* file empty.
C5_Witness ==
    /\ saved[DefaultFilename].done
    /\ saved[DefaultFilename].calls = 2
    /\ saved[DefaultFilename].steps = << >>
    /\ files[DefaultFilename].text = << >>

\* C6: the configuration returned has one entry, with model mistral:latest,
\* the placeholder credential, and as base URL the value of OLLAMA_BASE_URL
\* verbatim when it is set and http://localhost:11434/v1 when it is not.
C6_ConfigFollowsEnvironment ==
    llm_config # NoConfig =>
        /\ Len(llm_config.config_list) = 1
        /\ llm_config.config_list[1].model = "mistral:latest"
        /\ llm_config.config_list[1].api_key = "NA"
        /\ llm_config.config_list[1].base_url =
              (IF env = Unset THEN "http://localhost:11434/v1" ELSE env)

\* C6 witness: the variable is set to the empty string and the empty string
\* is the base URL returned.
C6_Witness ==
    /\ env = ""
    /\ llm_config # NoConfig
    /\ llm_config.config_list[1].base_url = ""

\* every execution of the tool has its own message: the user proxy's result
\* message in the slot after the call, "Error" when the save raised
ToolLogInTranscript ==
    \A k \in 1..Len(tool_log) :
        LET e == tool_log[k]
        IN  /\ 1 < e.slot /\ e.slot <= Len(messages)
            /\ messages[e.slot].kind = "tool_result"
            /\ messages[e.slot].name = "user"
            /\ e.raised <=> messages[e.slot].content = "Error"
            /\ messages[e.slot - 1].kind = "tool_call"
            /\ \A j \in 1..Len(tool_log) : tool_log[j].slot = e.slot => j = k

\* C7: a turn in which the persistence tool runs, raising or not, runs it
\* once, appends its result as that turn's message and leaves the chat
\* running under the round counter; every run has its own result message.
C7_ToolErrorIsAMessage ==
    /\ []ToolLogInTranscript
    /\ [][Len(tool_log') > Len(tool_log) =>
             /\ Len(tool_log') = Len(tool_log) + 1
             /\ Len(messages') = Len(messages) + 1
             /\ tool_log'[Len(tool_log')].slot = Len(messages')
             /\ round' = round + 1
             /\ pc' = "chat"
             /\ ~terminated']_vars

\* C7 witness: a save raised, and the conversation went on after it.
C7_Witness ==
    \E k \in 1..Len(tool_log) :
        /\ tool_log[k].raised
        /\ tool_log[k].slot < Len(messages)

\* C8: when every backend call returns, every conversation terminates; the
\* round counter never goes back, so that an exchange the supervisor never
\* stops ends when the counter reaches 10.
C8_EventuallyTerminated ==
    /\ <>terminated
    /\ [][round' >= round /\ Len(messages') >= Len(messages)]_vars

\* C8 witness: a conversation ended by the round budget.
C8_Witness == terminated /\ round = 10 /\ pc = "print"

\* C9: every step leaves the transcript as it is or appends one message of
\* one of the three roles to it; no message already there changes.
C9_TranscriptAppendOnly ==
    [][\/ messages' = messages
       \/ /\ Len(messages') = Len(messages) + 1
          /\ SubSeq(messages', 1, Len(messages)) = messages
          /\ \E i \in 1..Len(agents) :
                messages'[Len(messages')].name = agents[i]]_vars

\* C9 witness: a transcript to which all three roles have contributed.
C9_Witness ==
    /\ Len(messages) >= 4
    /\ Senders(Len(messages)) = {"user", "planner", "executor"}

\* C10: a conversation is terminated only when the round counter has
\* reached 10 or the transcript holds a plan, execution notes and a tool
\* invocation.  (As claimed; the supervisor's stop is bound to neither.)
C10_TerminatedOnlyWhenComplete ==
    terminated =>
        \/ round = 10
        \/ HasPlan /\ HasNotes /\ HasToolInvocation

====
